---- MODULE Spec2Model ----
(***************************************************************************)
(* Model of app.py: the validation chain of /predict, the scoring step,    *)
(* and the Prediction table with its three endpoints /predict, /update and *)
(* /list-db-contents, served by concurrent workers.                        *)
(***************************************************************************)
EXTENDS Integers, Sequences, FiniteSets, TLC

VARIABLES pc, req, score, p, resp, store, txn, served, storedAtStart

vars == <<pc, req, score, p, resp, store, txn, served, storedAtStart>>

(***************************************************************************)
(* Bounds of the model.                                                    *)
(***************************************************************************)
NumWorkers == 2
MaxRequests == 3
MaxDefects == 2

Workers == 1..NumWorkers

(***************************************************************************)
(* JSON values: a tag t and a payload v.  Floats are kept in tenths.       *)
(***************************************************************************)
JNull == [t |-> "null", v |-> 0]
JInt(n) == [t |-> "int", v |-> n]
JBool(b) == [t |-> "bool", v |-> IF b THEN 1 ELSE 0]
JFloat(tenths) == [t |-> "float", v |-> tenths]
JNaN == [t |-> "nan", v |-> 0]
JInf == [t |-> "inf", v |-> 0]
JStr(s) == [t |-> "str", v |-> s]
JList(s) == [t |-> "list", v |-> s]
JMap(f) == [t |-> "map", v |-> f]

\* An empty mapping and a mapping built from key/value pairs.
EmptyMap == [k \in {} |-> JNull]
With(f, k, x) == [j \in DOMAIN f \cup {k} |-> IF j = k THEN x ELSE f[j]]
Without(f, k) == [j \in DOMAIN f \ {k} |-> f[j]]

\* Python's isinstance(x, int): bool is a subclass of int.
IsInstanceInt(x) == x.t \in {"int", "bool"}
\* Python: x is None
IsNone(x) == x.t = "null"
\* Python: key in container; for a list it is element membership, for a
\* mapping key membership; null, numbers and booleans are not iterable.
SupportsIn(c) == c.t \in {"map", "list"}
Contains(c, key) ==
    CASE c.t = "map" -> key \in DOMAIN c.v
      [] c.t = "list" -> \E i \in 1..Len(c.v) : c.v[i] = key
      [] OTHER -> FALSE
\* dict.get(key): None when the key is absent
Get(observation, key) ==
    IF key \in DOMAIN observation.v THEN observation.v[key] ELSE JNull

(***************************************************************************)
(* Results of a check: (assertion value, error message).  A message is a   *)
(* tuple of its template and the value formatted into it.                  *)
(***************************************************************************)
Ok == <<TRUE, <<"">> >>
Fail(msg) == <<FALSE, msg>>

(***************************************************************************)
(* Program constants of the validation rules.                              *)
(***************************************************************************)
NumColumns == 9
AgeMin == 10
AgeMax == 100
CapitalMin == 0
HoursMin == 0
HoursMax == 168

valid_columns ==
    {"age", "sex", "race", "workclass", "education", "marital-status",
     "capital-gain", "capital-loss", "hours-per-week"}

\* The categorical fields in the order the dictionary literal lists them.
category_keys == <<"sex", "race", "workclass", "education", "marital-status">>

valid_category_map ==
    [k \in {"sex", "race", "workclass", "education", "marital-status"} |->
       CASE k = "sex" -> {"Male", "Female"}
         [] k = "race" -> {"White", "Black", "Asian-Pac-Islander",
                           "Amer-Indian-Eskimo", "Other"}
         [] k = "workclass" -> {"State-gov", "Self-emp-not-inc", "Private",
                                "Federal-gov", "Local-gov", "?", "Self-emp-inc",
                                "Without-pay", "Never-worked"}
         [] k = "education" -> {"Bachelors", "HS-grad", "11th", "Masters", "9th",
                                "Some-college", "Assoc-acdm", "Assoc-voc",
                                "7th-8th", "Doctorate", "Prof-school", "5th-6th",
                                "10th", "1st-4th", "Preschool", "12th"}
         [] OTHER -> {"Never-married", "Married-civ-spouse", "Divorced",
                      "Married-spouse-absent", "Separated", "Married-AF-spouse",
                      "Widowed"}]

\* check_request: both envelope fields must be in the request.
check_request(request) ==
    IF ~Contains(request, "observation_id")
    THEN Fail(<<"Field 'observation_id' missing from request: {}", request>>)
    ELSE IF ~Contains(request, "data")
    THEN Fail(<<"Field 'data' missing from request: {}", request>>)
    ELSE Ok

\* Mutant: the number of keys is tested before the two set differences.
check_valid_columnCountFirst(observation) ==
    LET keys == DOMAIN observation.v IN
    IF Cardinality(keys) # NumColumns
    THEN Fail(<<"Number of columns provided is not correct: {}",
                keys \ valid_columns>>)
    ELSE IF Cardinality(valid_columns \ keys) > 0
    THEN Fail(<<"Missing columns: {}", valid_columns \ keys>>)
    ELSE IF Cardinality(keys \ valid_columns) > 0
    THEN Fail(<<"Unrecognized columns provided: {}", keys \ valid_columns>>)
    ELSE Ok

\* Mutant: unknown keys are tested before missing keys.
check_valid_columnExtraFirst(observation) ==
    LET keys == DOMAIN observation.v IN
    IF Cardinality(keys \ valid_columns) > 0
    THEN Fail(<<"Unrecognized columns provided: {}", keys \ valid_columns>>)
    ELSE IF Cardinality(valid_columns \ keys) > 0
    THEN Fail(<<"Missing columns: {}", valid_columns \ keys>>)
    ELSE Ok

\* check_valid_column: missing keys first, then unknown keys, then the count.
check_valid_column(observation) ==
    LET keys == DOMAIN observation.v IN
    IF Cardinality(valid_columns \ keys) > 0
    THEN Fail(<<"Missing columns: {}", valid_columns \ keys>>)
    ELSE IF Cardinality(keys \ valid_columns) > 0
    THEN Fail(<<"Unrecognized columns provided: {}", keys \ valid_columns>>)
    ELSE IF Cardinality(keys) # NumColumns
    THEN Fail(<<"Number of columns provided is not correct: {}",
                keys \ valid_columns>>)
    ELSE Ok

\* value not in valid_categories: only a string of the list is a member.
InCategories(value, valid_categories) ==
    value.t = "str" /\ value.v \in valid_categories

\* The loop of check_categorical_values from the i-th categorical field on.
RECURSIVE CategoricalFrom(_, _)
CategoricalFrom(observation, i) ==
    IF i > Len(category_keys) THEN Ok
    ELSE LET key == category_keys[i] IN
         IF key \in DOMAIN observation.v
         THEN IF ~InCategories(observation.v[key], valid_category_map[key])
              THEN Fail(<<"Invalid value provided for {}: {}. Allowed values are: {}",
                          key, observation.v[key], valid_category_map[key]>>)
              ELSE CategoricalFrom(observation, i + 1)
         ELSE Fail(<<"Categorical field {} missing">>)

check_categorical_values(observation) == CategoricalFrom(observation, 1)

check_age(observation) ==
    LET age == Get(observation, "age") IN
    IF IsNone(age) THEN Fail(<<"Field 'age' missing">>)
    ELSE IF ~IsInstanceInt(age) THEN Fail(<<"Field 'age' is not an integer">>)
    ELSE IF age.v < AgeMin \/ age.v > AgeMax
    THEN Fail(<<"Field 'age' is not between 10 and 100. 'age' is {}", age>>)
    ELSE Ok

check_capital_gain(observation) ==
    LET capital_gain == Get(observation, "capital-gain") IN
    IF IsNone(capital_gain) THEN Fail(<<"Field 'capital-gain' missing">>)
    ELSE IF ~IsInstanceInt(capital_gain)
    THEN Fail(<<"Field 'capital-gain' is not an integer">>)
    ELSE IF capital_gain.v < CapitalMin
    THEN Fail(<<"Field 'capital-gain' is not a positive integer. 'capital-gain' is {}",
                capital_gain>>)
    ELSE Ok

check_capital_loss(observation) ==
    LET capital_loss == Get(observation, "capital-loss") IN
    IF IsNone(capital_loss) THEN Fail(<<"Field 'capital-loss' missing">>)
    ELSE IF ~IsInstanceInt(capital_loss)
    THEN Fail(<<"Field 'capital-loss' is not an integer">>)
    ELSE IF capital_loss.v < CapitalMin
    THEN Fail(<<"Field 'capital-loss' is not a positive integer.  'capital-loss' is {}",
                capital_loss>>)
    ELSE Ok

check_hours_per_week(observation) ==
    LET hours_per_week == Get(observation, "hours-per-week") IN
    IF IsNone(hours_per_week) THEN Fail(<<"Field 'hours-per-week' missing">>)
    ELSE IF ~IsInstanceInt(hours_per_week)
    THEN Fail(<<"Field 'hours-per-week' is not an integer">>)
    ELSE IF hours_per_week.v < HoursMin \/ hours_per_week.v > HoursMax
    THEN Fail(<<"Field 'hours-per-week' is not between 0 and 168. 'hours-per-week' is {}",
                hours_per_week>>)
    ELSE Ok

(***************************************************************************)
(* The /predict handler up to scoring: the ordered checks.  An outcome is  *)
(* a rejection with the first error, an exception that nothing catches, or *)
(* a pass.                                                                 *)
(***************************************************************************)
Raise(exc) == [kind |-> "raise", exc |-> exc]
Reject(error) == [kind |-> "reject", error |-> error]
Pass == [kind |-> "pass"]

\* Mutant: the check of hours-per-week is left out of the chain.
ObservationChecksNoHours(observation) ==
    IF ~check_valid_column(observation)[1]
    THEN Reject(check_valid_column(observation)[2])
    ELSE IF ~check_categorical_values(observation)[1]
    THEN Reject(check_categorical_values(observation)[2])
    ELSE IF ~check_age(observation)[1]
    THEN Reject(check_age(observation)[2])
    ELSE IF ~check_capital_gain(observation)[1]
    THEN Reject(check_capital_gain(observation)[2])
    ELSE IF ~check_capital_loss(observation)[1]
    THEN Reject(check_capital_loss(observation)[2])
    ELSE Pass

\* Mutant: age is checked before the categorical fields.
ObservationChecksAgeFirst(observation) ==
    IF ~check_valid_column(observation)[1]
    THEN Reject(check_valid_column(observation)[2])
    ELSE IF ~check_age(observation)[1]
    THEN Reject(check_age(observation)[2])
    ELSE IF ~check_categorical_values(observation)[1]
    THEN Reject(check_categorical_values(observation)[2])
    ELSE IF ~check_capital_gain(observation)[1]
    THEN Reject(check_capital_gain(observation)[2])
    ELSE IF ~check_capital_loss(observation)[1]
    THEN Reject(check_capital_loss(observation)[2])
    ELSE IF ~check_hours_per_week(observation)[1]
    THEN Reject(check_hours_per_week(observation)[2])
    ELSE Pass

\* The six checks on the observation, in the order predict() calls them.
ObservationChecks(observation) ==
    IF ~check_valid_column(observation)[1]
    THEN Reject(check_valid_column(observation)[2])
    ELSE IF ~check_categorical_values(observation)[1]
    THEN Reject(check_categorical_values(observation)[2])
    ELSE IF ~check_age(observation)[1]
    THEN Reject(check_age(observation)[2])
    ELSE IF ~check_capital_gain(observation)[1]
    THEN Reject(check_capital_gain(observation)[2])
    ELSE IF ~check_capital_loss(observation)[1]
    THEN Reject(check_capital_loss(observation)[2])
    ELSE IF ~check_hours_per_week(observation)[1]
    THEN Reject(check_hours_per_week(observation)[2])
    ELSE Pass

PredictChecks(obs_dict) ==
    IF ~SupportsIn(obs_dict) THEN Raise("TypeError")
    ELSE IF ~check_request(obs_dict)[1] THEN Reject(check_request(obs_dict)[2])
    ELSE IF obs_dict.t # "map" THEN Raise("TypeError")
    ELSE IF obs_dict.v["data"].t # "map" THEN Raise("AttributeError")
    ELSE ObservationChecks(obs_dict.v["data"])

(***************************************************************************)
(* Responses and the per-request locals.                                   *)
(***************************************************************************)
NoResp == [kind |-> "none"]
Exception(exc) == [kind |-> "exception", exc |-> exc]
Json(body) == [kind |-> "json", body |-> body]

NoScore == [set |-> FALSE]
NoP == [set |-> FALSE]
NoReq == [endpoint |-> "none", body |-> JNull]

\* The scores the classifier may return: predict_proba in percent, and
\* the label of predict.
Scores == {[proba |-> 25, prediction |-> FALSE], [proba |-> 75, prediction |-> TRUE]}

(***************************************************************************)
(* The Prediction table.  A row carries the automatic primary key id.      *)
(***************************************************************************)
Rows(observation_id) ==
    {i \in 1..Len(store) : store[i].observation_id = observation_id}

\* Mutant: observation_id declared without unique=True.
IntegrityErrorNotNullOnly(observation_id) == IsNone(observation_id)

\* INSERT of Prediction.save(): the NOT NULL and UNIQUE constraints of
\* observation_id raise IntegrityError.
IntegrityError(observation_id) ==
    IsNone(observation_id) \/ Rows(observation_id) # {}

\* Mutant: a new record is created with a label.
NewRowLabelled(observation_id, observation, proba) ==
    [id |-> Len(store) + 1, observation_id |-> observation_id,
     observation |-> observation, proba |-> proba, true_class |-> JInt(0)]

NewRow(observation_id, observation, proba) ==
    [id |-> Len(store) + 1, observation_id |-> observation_id,
     observation |-> observation, proba |-> proba, true_class |-> JNull]

Set(f, t, x) == [f EXCEPT ![t] = x]

(***************************************************************************)
(* A request arrives and goes to the first worker that is free.            *)
(***************************************************************************)
HasStoredId(r) ==
    /\ r.body.t = "map"
    /\ "observation_id" \in DOMAIN r.body.v
    /\ Rows(r.body.v["observation_id"]) # {}

Receive(t, r) ==
    /\ pc[t] \in {"idle", "done"}
    /\ \A u \in Workers : u < t => pc[u] \notin {"idle", "done"}
    /\ served < MaxRequests
    /\ served' = served + 1
    /\ pc' = Set(pc, t, "recv")
    /\ req' = Set(req, t, r)
    /\ score' = Set(score, t, NoScore)
    /\ p' = Set(p, t, NoP)
    /\ resp' = Set(resp, t, NoResp)
    /\ storedAtStart' = Set(storedAtStart, t, HasStoredId(r))
    /\ UNCHANGED <<store, txn>>

(***************************************************************************)
(* /predict                                                                *)
(***************************************************************************)
PredictValidate(t) ==
    /\ pc[t] = "recv"
    /\ req[t].endpoint = "predict"
    /\ LET outcome == PredictChecks(req[t].body) IN
       CASE outcome.kind = "raise" ->
              /\ pc' = Set(pc, t, "done")
              /\ resp' = Set(resp, t, Exception(outcome.exc))
         [] outcome.kind = "reject" ->
              /\ pc' = Set(pc, t, "done")
              /\ resp' = Set(resp, t, Json([error |-> outcome.error]))
         [] OTHER ->
              /\ pc' = Set(pc, t, "valid")
              /\ UNCHANGED resp
    /\ UNCHANGED <<req, score, p, store, txn, served, storedAtStart>>

PredictScore(t) ==
    /\ pc[t] = "valid"
    /\ \E s \in Scores :
         score' = Set(score, t, [set |-> TRUE, proba |-> s.proba,
                                 prediction |-> s.prediction])
    /\ pc' = Set(pc, t, "scored")
    /\ UNCHANGED <<req, p, resp, store, txn, served, storedAtStart>>

\* DB.rollback() ends the failed transaction of the worker's connection.
rollback(state) == "none"

\* Mutant: on a duplicate the stored record is replaced (an upsert).
SaveOutcomeUpsert(t) ==
    LET _id == req[t].body.v["observation_id"]
        response == [prediction |-> score[t].prediction,
                     probability |-> score[t].proba]
        row == NewRow(_id, req[t].body, score[t].proba)
    IN IF IntegrityError(_id)
       THEN [store |-> [i \in 1..Len(store) |->
                          IF store[i].observation_id = _id
                          THEN [row EXCEPT !.id = i] ELSE store[i]],
             p |-> NoP,
             txn |-> rollback("failed"),
             response |-> [prediction |-> response.prediction,
                           probability |-> response.probability,
                           error |-> <<"ERROR: Observation ID: '{}' already exists",
                                       _id>>]]
       ELSE [store |-> Append(store, row),
             p |-> [set |-> TRUE, row |-> row],
             txn |-> "none",
             response |-> response]

\* Mutant: the duplicate is looked for when the request arrives instead of
\* being left to the constraint of the table at the insert.
SaveOutcomeCheckAtStart(t) ==
    LET _id == req[t].body.v["observation_id"]
        response == [prediction |-> score[t].prediction,
                     probability |-> score[t].proba]
        row == NewRow(_id, req[t].body, score[t].proba)
    IN IF IsNone(_id) \/ storedAtStart[t]
       THEN [store |-> store,
             p |-> NoP,
             txn |-> rollback("failed"),
             response |-> [prediction |-> response.prediction,
                           probability |-> response.probability,
                           error |-> <<"ERROR: Observation ID: '{}' already exists",
                                       _id>>]]
       ELSE [store |-> Append(store, row),
             p |-> [set |-> TRUE, row |-> row],
             txn |-> "none",
             response |-> response]

\* Mutant: on a duplicate the response is replaced by the error alone.
SaveOutcomeErrorOnly(t) ==
    LET _id == req[t].body.v["observation_id"]
        response == [prediction |-> score[t].prediction,
                     probability |-> score[t].proba]
        row == NewRow(_id, req[t].body, score[t].proba)
    IN IF IntegrityError(_id)
       THEN [store |-> store,
             p |-> NoP,
             txn |-> rollback("failed"),
             response |-> [error |-> <<"ERROR: Observation ID: '{}' already exists",
                                       _id>>]]
       ELSE [store |-> Append(store, row),
             p |-> [set |-> TRUE, row |-> row],
             txn |-> "none",
             response |-> response]

\* p.save() and the except branch with DB.rollback().
SaveOutcome(t) ==
    LET _id == req[t].body.v["observation_id"]
        response == [prediction |-> score[t].prediction,
                     probability |-> score[t].proba]
        row == NewRow(_id, req[t].body, score[t].proba)
    IN IF IntegrityError(_id)
       THEN [store |-> store,
             p |-> NoP,
             txn |-> rollback("failed"),
             response |-> [prediction |-> response.prediction,
                           probability |-> response.probability,
                           error |-> <<"ERROR: Observation ID: '{}' already exists",
                                       _id>>]]
       ELSE [store |-> Append(store, row),
             p |-> [set |-> TRUE, row |-> row],
             txn |-> "none",
             response |-> response]

PredictSave(t) ==
    /\ pc[t] = "scored"
    /\ store' = SaveOutcome(t).store
    /\ p' = Set(p, t, SaveOutcome(t).p)
    /\ txn' = Set(txn, t, SaveOutcome(t).txn)
    /\ resp' = Set(resp, t, Json(SaveOutcome(t).response))
    /\ pc' = Set(pc, t, "done")
    /\ UNCHANGED <<req, score, served, storedAtStart>>

(***************************************************************************)
(* /update                                                                 *)
(***************************************************************************)
\* Mutant: an unknown identifier is not caught and leaves as an exception.
GetOutcomeUncaught(obs) ==
    IF obs.t # "map" THEN Raise("TypeError")
    ELSE IF "observation_id" \notin DOMAIN obs.v THEN Raise("KeyError")
    ELSE LET found == Rows(obs.v["observation_id"]) IN
         IF found = {} THEN Raise("DoesNotExist")
         ELSE IF "true_class" \notin DOMAIN obs.v THEN Raise("KeyError")
         ELSE [kind |-> "got",
               row |-> [store[CHOOSE i \in found : \A j \in found : i <= j]
                          EXCEPT !.true_class = obs.v["true_class"]]]

\* Prediction.get(...) and the assignment of true_class.
GetOutcome(obs) ==
    IF obs.t # "map" THEN Raise("TypeError")
    ELSE IF "observation_id" \notin DOMAIN obs.v THEN Raise("KeyError")
    ELSE LET found == Rows(obs.v["observation_id"]) IN
         IF found = {}
         THEN Reject(<<"Observation ID: '{}' does not exist",
                       obs.v["observation_id"]>>)
         ELSE IF "true_class" \notin DOMAIN obs.v THEN Raise("KeyError")
         ELSE [kind |-> "got",
               row |-> [store[CHOOSE i \in found : \A j \in found : i <= j]
                          EXCEPT !.true_class = obs.v["true_class"]]]

UpdateGet(t) ==
    /\ pc[t] = "recv"
    /\ req[t].endpoint = "update"
    /\ LET outcome == GetOutcome(req[t].body) IN
       CASE outcome.kind = "raise" ->
              /\ pc' = Set(pc, t, "done")
              /\ resp' = Set(resp, t, Exception(outcome.exc))
              /\ UNCHANGED p
         [] outcome.kind = "reject" ->
              /\ pc' = Set(pc, t, "done")
              /\ resp' = Set(resp, t, Json([error |-> outcome.error]))
              /\ UNCHANGED p
         [] OTHER ->
              /\ pc' = Set(pc, t, "got")
              /\ p' = Set(p, t, [set |-> TRUE, row |-> outcome.row])
              /\ UNCHANGED resp
    /\ UNCHANGED <<req, score, store, txn, served, storedAtStart>>

\* Mutant: the UPDATE has no WHERE clause and labels every row.
SaveRowEverywhere(row) ==
    [i \in 1..Len(store) |-> [store[i] EXCEPT !.true_class = row.true_class]]

\* Mutant: a label that is set is kept; only an absent label is written.
SaveRowSetOnce(row) ==
    [i \in 1..Len(store) |->
       IF store[i].id = row.id /\ store[i].true_class = JNull
       THEN row ELSE store[i]]

\* p.save() of a row that has its primary key: UPDATE of every column of the
\* row with that key.
SaveRow(row) ==
    [i \in 1..Len(store) |-> IF store[i].id = row.id THEN row ELSE store[i]]

UpdateSave(t) ==
    /\ pc[t] = "got"
    /\ store' = SaveRow(p[t].row)
    /\ resp' = Set(resp, t, Json(p[t].row))
    /\ pc' = Set(pc, t, "done")
    /\ UNCHANGED <<req, score, p, txn, served, storedAtStart>>

(***************************************************************************)
(* /list-db-contents                                                       *)
(***************************************************************************)
\* Mutant: the enumeration stops after the first record.
ListDbContentsFirstOnly(t) ==
    /\ pc[t] = "recv"
    /\ req[t].endpoint = "list"
    /\ resp' = Set(resp, t, Json(IF store = << >> THEN store ELSE <<store[1]>>))
    /\ pc' = Set(pc, t, "done")
    /\ UNCHANGED <<req, score, p, store, txn, served, storedAtStart>>

\* list_db_contents: every row of the table, as model_to_dict gives it.
ListDbContents(t) ==
    /\ pc[t] = "recv"
    /\ req[t].endpoint = "list"
    /\ resp' = Set(resp, t, Json(store))
    /\ pc' = Set(pc, t, "done")
    /\ UNCHANGED <<req, score, p, store, txn, served, storedAtStart>>

(***************************************************************************)
(* Requests.                                                               *)
(***************************************************************************)
Base ==
    [k \in valid_columns |->
       CASE k = "age" -> JInt(39)
         [] k = "sex" -> JStr("Male")
         [] k = "race" -> JStr("White")
         [] k = "workclass" -> JStr("State-gov")
         [] k = "education" -> JStr("Bachelors")
         [] k = "marital-status" -> JStr("Never-married")
         [] k = "capital-gain" -> JInt(2174)
         [] k = "capital-loss" -> JInt(0)
         [] OTHER -> JInt(40)]

PredictBody(_id, data) ==
    JMap([k \in {"observation_id", "data"} |->
            IF k = "observation_id" THEN _id ELSE data])
UpdateBody(_id, true_class) ==
    JMap([k \in {"observation_id", "true_class"} |->
            IF k = "observation_id" THEN _id ELSE true_class])

PredictReq(body) == [endpoint |-> "predict", body |-> body]
UpdateReq(body) == [endpoint |-> "update", body |-> body]
ListReq == [endpoint |-> "list", body |-> JNull]

\* The requests the concurrent workers draw from.
Requests ==
    {PredictReq(PredictBody(JStr("a"), JMap(Base))),
     PredictReq(PredictBody(JStr("a"), JMap(With(Base, "age", JInt(64))))),
     PredictReq(PredictBody(JStr("b"), JMap(Base))),
     UpdateReq(UpdateBody(JStr("a"), JInt(0))),
     UpdateReq(UpdateBody(JStr("a"), JInt(1))),
     UpdateReq(UpdateBody(JStr("a"), JNull)),
     UpdateReq(JMap(With(EmptyMap, "observation_id", JStr("a")))),
     UpdateReq(JNull),
     ListReq}

\* Values a field of the observation is tried with, besides its valid one.
Alternatives(k) ==
    CASE k = "age" ->
           {JNull, JInt(9), JInt(100), JInt(101), JBool(TRUE), JFloat(395),
            JNaN, JInf, JStr("39")}
      [] k = "capital-gain" ->
           {JNull, JInt(-1), JBool(TRUE), JFloat(5), JStr("0")}
      [] k = "capital-loss" -> {JNull, JInt(-1), JBool(TRUE), JFloat(5)}
      [] k = "hours-per-week" ->
           {JNull, JInt(-1), JInt(168), JInt(169), JBool(TRUE), JFloat(405)}
      [] k \in valid_columns -> {JNull, JInt(1), JStr("Robot")}
      [] OTHER -> {JInt(1)}

\* A defect of an observation: a column and what happens to it.  Absent
\* drops the column; dropping the unknown column changes nothing.
Absent == [t |-> "absent", v |-> 0]
DefectChoices ==
    UNION {{<<k, a>> : a \in Alternatives(k) \cup {Absent}} :
             k \in valid_columns \cup {"zip-code"}}

Apply(f, d) == IF d[2] = Absent THEN Without(f, d[1]) ELSE With(f, d[1], d[2])

RECURSIVE ApplyAll(_, _, _)
ApplyAll(f, ds, i) ==
    IF i > Len(ds) THEN f ELSE ApplyAll(Apply(f, ds[i]), ds, i + 1)

\* The observations that differ from Base by at most n defects.
Observations(n) == {ApplyAll(Base, ds, 1) : ds \in [1..n -> DefectChoices]}

\* The /predict requests the validation chain is checked on: the envelope
\* variants, and every observation with and without an identifier.
EnvelopeRequests ==
    {PredictReq(JNull),
     PredictReq(JList(<<"observation_id", "data">>)),
     PredictReq(JList(<<"data">>)),
     PredictReq(JMap(With(EmptyMap, "observation_id", JStr("a"))))}
      \cup {PredictReq(PredictBody(_id, data)) :
              _id \in {JStr("a"), JStr(""), JNull},
              data \in {JNull, JList(<<"age">>)}}
      \cup {PredictReq(PredictBody(_id, JMap(f))) :
              _id \in {JStr(""), JNull}, f \in Observations(1)}

ObservationRequest(_id, f) ==
    PredictReq(JMap(Apply(PredictBody(_id, JMap(f)).v, <<"observation_id", _id>>)))

(***************************************************************************)
(* Specifications.                                                         *)
(***************************************************************************)
Init ==
    /\ pc = [t \in Workers |-> "idle"]
    /\ req = [t \in Workers |-> NoReq]
    /\ score = [t \in Workers |-> NoScore]
    /\ p = [t \in Workers |-> NoP]
    /\ resp = [t \in Workers |-> NoResp]
    /\ store = << >>
    /\ txn = [t \in Workers |-> "none"]
    /\ served = 0
    /\ storedAtStart = [t \in Workers |-> FALSE]

Next ==
    \E t \in Workers :
       \/ \E r \in Requests : Receive(t, r)
       \/ PredictValidate(t)
       \/ PredictScore(t)
       \/ PredictSave(t)
       \/ UpdateGet(t)
       \/ UpdateSave(t)
       \/ ListDbContents(t)

Spec == Init /\ [][Next]_vars

\* One worker serving one /predict request of the validation set.
NextV ==
    \/ served = 0 /\ \E r \in EnvelopeRequests : Receive(1, r)
    \/ /\ served = 0
       /\ \E ds \in [1..MaxDefects -> DefectChoices], _id \in {Absent, JStr("a")} :
            Receive(1, ObservationRequest(_id, ApplyAll(Base, ds, 1)))
    \/ PredictValidate(1)
    \/ PredictScore(1)
    \/ PredictSave(1)

\* The table is empty, or holds the record of an earlier /predict for "a".
SeededStore ==
    {<< >>,
     <<[id |-> 1, observation_id |-> JStr("a"),
        observation |-> PredictBody(JStr("a"), JMap(Base)),
        proba |-> 25, true_class |-> JNull]>>}

InitV ==
    /\ pc = [t \in Workers |-> "idle"]
    /\ req = [t \in Workers |-> NoReq]
    /\ score = [t \in Workers |-> NoScore]
    /\ p = [t \in Workers |-> NoP]
    /\ resp = [t \in Workers |-> NoResp]
    /\ store \in SeededStore
    /\ txn = [t \in Workers |-> "none"]
    /\ served = 0
    /\ storedAtStart = [t \in Workers |-> FALSE]

SpecV == InitV /\ [][NextV]_vars

(***************************************************************************)
(* Properties.                                                             *)
(***************************************************************************)
IsPredict(t) == req[t].endpoint = "predict"
IsUpdate(t) == req[t].endpoint = "update"
\* The identifier a request carries, for a body that is a mapping with one.
IdOf(t) == req[t].body.v["observation_id"]
HasError(t) == resp[t].kind = "json" /\ "error" \in DOMAIN resp[t].body
DuplicateError(_id) == <<"ERROR: Observation ID: '{}' already exists", _id>>
\* Worker t takes the save step of /predict.
SaveStep(t) == pc[t] = "scored" /\ pc'[t] = "done"
\* Worker t takes the first step of the handler of its request.
FirstStep(t) == pc[t] = "recv" /\ pc'[t] # "recv"

\* C1: in every reachable state the table holds at most one record per
\* observation_id.
C1_UniqueObservationId ==
    \A i, j \in 1..Len(store) :
       store[i].observation_id = store[j].observation_id => i = j

\* C1 witness: two records are stored and a /predict for a stored identifier
\* has been answered.
C1_Witness ==
    /\ Len(store) >= 2
    /\ \E t \in Workers : pc[t] = "done" /\ IsPredict(t) /\ HasError(t)

\* C2: when /predict saves for an identifier that is not stored the insert
\* succeeds without error; when the identifier is stored the response has
\* the duplicate error, the table is unchanged and no transaction is left
\* open.
C2_SecondInsertRejected ==
    [][\A t \in Workers :
         SaveStep(t) =>
           IF Rows(IdOf(t)) = {}
           THEN /\ ~IsNone(IdOf(t)) => Len(store') = Len(store) + 1
                /\ ~IsNone(IdOf(t)) => "error" \notin DOMAIN resp'[t].body
           ELSE /\ store' = store
                /\ txn' = [u \in Workers |-> "none"]
                /\ resp'[t].kind = "json"
                /\ "error" \in DOMAIN resp'[t].body
                /\ resp'[t].body.error = DuplicateError(IdOf(t))]_vars

\* C2 witness: a second /predict for "a" with another observation was
\* answered with the duplicate error and the record of the first is stored.
C2_Witness ==
    \E t \in Workers :
       /\ pc[t] = "done" /\ IsPredict(t) /\ HasError(t) /\ score[t].set
       /\ \E i \in Rows(IdOf(t)) :
            store[i].observation # req[t].body /\ store[i].proba # score[t].proba

\* Two workers have finished /predict requests for the same identifier that
\* was not stored when either arrived, and no third request inserted it.
ConcurrentPair(t1, t2) ==
    /\ t1 # t2
    /\ pc[t1] = "done" /\ pc[t2] = "done"
    /\ IsPredict(t1) /\ IsPredict(t2)
    /\ score[t1].set /\ score[t2].set
    /\ IdOf(t1) = IdOf(t2)
    /\ ~storedAtStart[t1] /\ ~storedAtStart[t2]
    /\ \A i \in Rows(IdOf(t1)) :
         \E t \in {t1, t2} : p[t].set /\ p[t].row.id = store[i].id

\* C3: of two concurrent valid /predict requests with the same new
\* identifier exactly one persists its record without error, the other gets
\* the duplicate error, and exactly one record with the identifier exists.
C3_ConcurrentInsertOnce ==
    \A t1, t2 \in Workers :
       ConcurrentPair(t1, t2) =>
         /\ HasError(t1) # HasError(t2)
         /\ \A t \in {t1, t2} :
              /\ resp[t].kind = "json"
              /\ HasError(t) => resp[t].body.error = DuplicateError(IdOf(t))
              /\ HasError(t) <=> ~p[t].set
         /\ Cardinality(Rows(IdOf(t1))) = 1

\* C3 witness: such a pair has finished.
C3_Witness == \E t1, t2 \in Workers : ConcurrentPair(t1, t2) /\ HasError(t2)

\* C4: a valid /predict for a stored identifier answers with the computed
\* prediction and probability together with the duplicate error, and the
\* score is not persisted.
C4_DuplicateKeepsScore ==
    [][\A t \in Workers :
         (SaveStep(t) /\ Rows(IdOf(t)) # {}) =>
           /\ resp'[t] = Json([prediction |-> score[t].prediction,
                               probability |-> score[t].proba,
                               error |-> DuplicateError(IdOf(t))])
           /\ Len(store') = Len(store)
           /\ \A i \in 1..Len(store) : store'[i].proba = store[i].proba
           /\ ~p'[t].set]_vars

\* C4 witness: a duplicate was answered with a probability that is not the
\* stored one.
C4_Witness ==
    \E t \in Workers :
       /\ pc[t] = "done" /\ IsPredict(t) /\ HasError(t) /\ score[t].set
       /\ "probability" \in DOMAIN resp[t].body
       /\ \E i \in Rows(IdOf(t)) : store[i].proba # resp[t].body.probability

\* C5: a valid /predict for an identifier that is not stored appends exactly
\* one record with the submitted identifier, the probability of the
\* response and no true_class, answers without error, and changes no other
\* record.
C5_FreshInsert ==
    [][\A t \in Workers :
         (SaveStep(t) /\ Rows(IdOf(t)) = {} /\ ~IsNone(IdOf(t))) =>
           /\ Len(store') = Len(store) + 1
           /\ SubSeq(store', 1, Len(store)) = store
           /\ store'[Len(store')].observation_id = IdOf(t)
           /\ store'[Len(store')].observation = req[t].body
           /\ store'[Len(store')].true_class = JNull
           /\ resp'[t].kind = "json"
           /\ DOMAIN resp'[t].body = {"prediction", "probability"}
           /\ store'[Len(store')].proba = resp'[t].body.probability
           /\ resp'[t].body.probability = score[t].proba]_vars

\* C5 witness: a /predict was answered without error while another record,
\* already labelled, stays stored.
C5_Witness ==
    \E t \in Workers :
       /\ pc[t] = "done" /\ IsPredict(t) /\ score[t].set /\ ~HasError(t)
       /\ p[t].set /\ p[t].row.id = Len(store) /\ Len(store) >= 2
       /\ \E i \in 1..Len(store) : store[i].true_class # JNull

\* The checks of /predict by number, in the order of the specification:
\* 1 envelope, 2 column set, 3 categorical domain, 4 age, 5 capital-gain,
\* 6 capital-loss, 7 hours-per-week.
CheckAt(k, observation) ==
    CASE k = 2 -> check_valid_column(observation)
      [] k = 3 -> check_categorical_values(observation)
      [] k = 4 -> check_age(observation)
      [] k = 5 -> check_capital_gain(observation)
      [] k = 6 -> check_capital_loss(observation)
      [] OTHER -> check_hours_per_week(observation)

\* The body carries an observation the six checks can be applied to.
HasObservation(body) ==
    body.t = "map" /\ "data" \in DOMAIN body.v /\ body.v["data"].t = "map"

\* The checks a body fails, each applied on its own.
FailingChecks(body) ==
    {k \in {1} : SupportsIn(body) /\ ~check_request(body)[1]}
      \cup {k \in 2..7 : HasObservation(body) /\ ~CheckAt(k, body.v["data"])[1]}

ErrorAt(k, body) ==
    IF k = 1 THEN check_request(body)[2] ELSE CheckAt(k, body.v["data"])[2]

Earliest(S) == CHOOSE k \in S : \A j \in S : k <= j

\* C6: a /predict request that fails a check is answered at once with an
\* error alone; the classifier is not invoked and the table is unchanged.
C6_RejectedBeforeScoring ==
    [][\A t \in Workers :
         (FirstStep(t) /\ IsPredict(t) /\ FailingChecks(req[t].body) # {}) =>
           /\ pc'[t] = "done"
           /\ store' = store
           /\ ~score'[t].set
           /\ resp'[t].kind = "json"
           /\ DOMAIN resp'[t].body = {"error"}]_vars

\* C6 witness: a request that fails only the last check was rejected while a
\* record is stored.
C6_Witness ==
    \E t \in Workers :
       /\ pc[t] = "done" /\ IsPredict(t) /\ FailingChecks(req[t].body) = {7}
       /\ HasError(t) /\ store # << >>

\* C7: the error of a rejected /predict request is the error of the
\* earliest check it fails, and nothing else.
C7_FirstFailureWins ==
    \A t \in Workers :
       (pc[t] = "done" /\ IsPredict(t) /\ FailingChecks(req[t].body) # {}) =>
         resp[t] = Json([error |->
                           ErrorAt(Earliest(FailingChecks(req[t].body)), req[t].body)])

\* C7 witness: a request failing the column, categorical and age checks was
\* answered.
C7_Witness ==
    \E t \in Workers :
       /\ pc[t] = "done" /\ IsPredict(t)
       /\ {2, 3, 4} \subseteq FailingChecks(req[t].body)
       /\ resp[t].kind = "json"

\* C8: /update for a stored identifier sets true_class of that record to
\* the submitted value, changes nothing else in the table, and returns the
\* record with the submitted true_class.
C8_UpdateSetsLabel ==
    [][\A t \in Workers :
         /\ (/\ FirstStep(t) /\ IsUpdate(t) /\ req[t].body.t = "map"
             /\ {"observation_id", "true_class"} \subseteq DOMAIN req[t].body.v
             /\ Rows(IdOf(t)) # {}) => pc'[t] = "got"
         /\ (pc[t] = "got" /\ pc'[t] = "done") =>
              /\ Rows(IdOf(t)) # {}
              /\ Len(store') = Len(store)
              /\ \A i \in 1..Len(store) :
                   store'[i] = IF store[i].observation_id = IdOf(t)
                               THEN [store[i] EXCEPT
                                       !.true_class = req[t].body.v["true_class"]]
                               ELSE store[i]
              /\ resp'[t].kind = "json"
              /\ \E i \in Rows(IdOf(t)) : resp'[t].body = store'[i]
              /\ resp'[t].body.true_class = req[t].body.v["true_class"]]_vars

\* C8 witness: a record was labelled while another record is stored.
C8_Witness ==
    \E t \in Workers :
       /\ pc[t] = "done" /\ IsUpdate(t) /\ resp[t].kind = "json" /\ ~HasError(t)
       /\ resp[t].body.true_class = JInt(1)
       /\ Len(store) >= 2

\* C9: /update for an identifier that is not stored answers with the
\* unknown-identifier error and leaves the table as it was.
C9_UpdateUnknownId ==
    [][\A t \in Workers :
         (/\ FirstStep(t) /\ IsUpdate(t) /\ req[t].body.t = "map"
          /\ "observation_id" \in DOMAIN req[t].body.v
          /\ Rows(IdOf(t)) = {}) =>
           /\ pc'[t] = "done"
           /\ store' = store
           /\ resp'[t] = Json([error |-> <<"Observation ID: '{}' does not exist",
                                           IdOf(t)>>])]_vars

\* C9 witness: an /update for "a" was refused while a record of another
\* identifier is stored.
C9_Witness ==
    \E t \in Workers :
       /\ pc[t] = "done" /\ IsUpdate(t) /\ HasError(t)
       /\ store # << >> /\ Rows(IdOf(t)) = {}

\* C10: every finished /predict and /update request has a structured
\* response, a success payload or an error payload.
C10_AlwaysStructured ==
    \A t \in Workers : pc[t] = "done" => resp[t].kind = "json"

\* The numeric columns with their ranges; no upper end where max is absent.
NumericColumns == {"age", "capital-gain", "capital-loss", "hours-per-week"}

InRange(k, n) ==
    CASE k = "age" -> AgeMin <= n /\ n <= AgeMax
      [] k = "hours-per-week" -> HoursMin <= n /\ n <= HoursMax
      [] OTHER -> CapitalMin <= n

\* The data model of an observation: the nine keys, every categorical
\* column a string of its enumerated set, every numeric column an integer
\* (not a boolean, a float, a string or null) within its range.
SatisfiesDataModel(f) ==
    /\ DOMAIN f = valid_columns
    /\ \A k \in DOMAIN valid_category_map :
         f[k].t = "str" /\ f[k].v \in valid_category_map[k]
    /\ \A k \in NumericColumns : f[k].t = "int" /\ InRange(k, f[k].v)

\* C11: every observation the classifier has scored satisfies the whole
\* data model: categorical columns in their sets, numeric columns integers
\* within their ranges.
C11_ScoredSatisfiesDataModel ==
    \A t \in Workers :
       (IsPredict(t) /\ score[t].set) =>
         /\ HasObservation(req[t].body)
         /\ SatisfiesDataModel(req[t].body.v["data"].v)

\* The body has an observation_id that is the empty string or null.
EmptyId(body) ==
    /\ body.t = "map" /\ "observation_id" \in DOMAIN body.v
    /\ body.v["observation_id"] \in {JStr(""), JNull}

\* The body is a mapping without the named field.
Lacks(body, k) == body.t = "map" /\ k \notin DOMAIN body.v

\* C12: a finished /predict request without observation_id, with an empty
\* or null observation_id, or without data was answered with the
\* missing-field error of that field and was neither scored nor persisted.
C12_EnvelopeRejects ==
    \A t \in Workers :
       (/\ pc[t] = "done" /\ IsPredict(t)
        /\ \/ Lacks(req[t].body, "observation_id")
           \/ EmptyId(req[t].body)
           \/ Lacks(req[t].body, "data")) =>
         /\ resp[t].kind = "json"
         /\ DOMAIN resp[t].body = {"error"}
         /\ resp[t].body.error[1] \in
              {"Field 'observation_id' missing from request: {}",
               "Field 'data' missing from request: {}"}
         /\ ~score[t].set /\ ~p[t].set

\* The observation of a /predict request that passed the envelope check.
EnvelopeOk(body) ==
    HasObservation(body) /\ "observation_id" \in DOMAIN body.v
KeysOf(t) == DOMAIN req[t].body.v["data"].v
MissingOf(t) == valid_columns \ KeysOf(t)
ExtraOf(t) == KeysOf(t) \ valid_columns

MissingColumns == "Missing columns: {}"
UnrecognizedColumns == "Unrecognized columns provided: {}"
WrongNumberOfColumns == "Number of columns provided is not correct: {}"

\* The response of worker t is an error whose message has the template.
ErrorIs(t, template) ==
    /\ resp[t].kind = "json" /\ DOMAIN resp[t].body = {"error"}
    /\ resp[t].body.error[1] = template

\* The response of worker t is one of the errors of the column-set check.
ColumnError(t) ==
    \E m \in {MissingColumns, UnrecognizedColumns, WrongNumberOfColumns} :
       ErrorIs(t, m)

\* C13 as stated: the column-set check passes exactly the payloads with the
\* nine keys, answers every payload with an unknown key with the
\* unrecognized-columns error and every payload without a required key with
\* the missing-columns error, and never with the wrong-number error.
C13_ColumnSetAsStated ==
    \A t \in Workers :
       (pc[t] = "done" /\ IsPredict(t) /\ EnvelopeOk(req[t].body)) =>
         /\ ColumnError(t) <=> KeysOf(t) # valid_columns
         /\ ExtraOf(t) # {} => ErrorIs(t, UnrecognizedColumns)
         /\ MissingOf(t) # {} => ErrorIs(t, MissingColumns)
         /\ ~ErrorIs(t, WrongNumberOfColumns)

\* C13: the column-set check passes exactly the payloads with the nine
\* keys; a payload without a required key gets the missing-columns error
\* with the absent keys, a payload with all nine keys and an unknown key
\* gets the unrecognized-columns error with the unknown keys, the
\* wrong-number error never occurs, and the outcome does not depend on the
\* values of the columns.
C13_ColumnSetCheck ==
    \A t \in Workers :
       (pc[t] = "done" /\ IsPredict(t) /\ EnvelopeOk(req[t].body)) =>
         /\ ColumnError(t) <=> KeysOf(t) # valid_columns
         /\ MissingOf(t) # {} =>
              resp[t] = Json([error |-> <<MissingColumns, MissingOf(t)>>])
         /\ (MissingOf(t) = {} /\ ExtraOf(t) # {}) =>
              resp[t] = Json([error |-> <<UnrecognizedColumns, ExtraOf(t)>>])
         /\ ~ErrorIs(t, WrongNumberOfColumns)

\* C13 witness: a payload with all nine keys, an unknown key and a value
\* outside its category was answered with the unrecognized-columns error.
C13_Witness ==
    \E t \in Workers :
       /\ pc[t] = "done" /\ IsPredict(t) /\ EnvelopeOk(req[t].body)
       /\ MissingOf(t) = {} /\ ExtraOf(t) # {}
       /\ 3 \in FailingChecks(req[t].body)
       /\ ErrorIs(t, UnrecognizedColumns)

\* The error names the column age: one of the messages of check_age, or the
\* missing-columns message with age among the listed columns.
ReferencesAge(error) ==
    \/ error[1] \in {"Field 'age' missing", "Field 'age' is not an integer",
                     "Field 'age' is not between 10 and 100. 'age' is {}"}
    \/ error[1] = MissingColumns /\ "age" \in error[2]

\* C14 as stated: every finished /predict request whose observation has no
\* age column was answered with an error that names age, whatever else is
\* wrong with the request.
C14_MissingAgeAsStated ==
    \A t \in Workers :
       (/\ pc[t] = "done" /\ IsPredict(t) /\ HasObservation(req[t].body)
        /\ "age" \notin KeysOf(t)) =>
         /\ resp[t].kind = "json" /\ DOMAIN resp[t].body = {"error"}
         /\ ReferencesAge(resp[t].body.error)

\* C14: every finished /predict request that has an observation_id and
\* whose observation has no age column was answered with the
\* missing-columns error listing age, whatever else is wrong with the
\* observation.
C14_MissingAgeNamed ==
    \A t \in Workers :
       (/\ pc[t] = "done" /\ IsPredict(t) /\ EnvelopeOk(req[t].body)
        /\ "age" \notin KeysOf(t)) =>
         /\ ErrorIs(t, MissingColumns)
         /\ ReferencesAge(resp[t].body.error)

\* C14 witness: an observation without age and with an unknown column was
\* answered with an error that names age.
C14_Witness ==
    \E t \in Workers :
       /\ pc[t] = "done" /\ IsPredict(t) /\ EnvelopeOk(req[t].body)
       /\ "age" \notin KeysOf(t) /\ ExtraOf(t) # {}
       /\ HasError(t) /\ ReferencesAge(resp[t].body.error)

\* C20: a finished /predict request whose observation lacks a required key
\* and has an unknown key was answered with the missing-columns error
\* listing exactly the absent required keys; the unrecognized-columns error
\* was given only to observations with all nine required keys.
C20_MissingBeforeUnrecognized ==
    \A t \in Workers :
       (pc[t] = "done" /\ IsPredict(t) /\ EnvelopeOk(req[t].body)) =>
         /\ (MissingOf(t) # {} /\ ExtraOf(t) # {}) =>
              /\ ErrorIs(t, MissingColumns)
              /\ resp[t].body.error[2] = MissingOf(t)
              /\ ~ErrorIs(t, UnrecognizedColumns)
         /\ ErrorIs(t, UnrecognizedColumns) => valid_columns \subseteq KeysOf(t)

\* C20 witness: an observation without a required key and with an unknown
\* key was answered.
C20_Witness ==
    \E t \in Workers :
       /\ pc[t] = "done" /\ IsPredict(t) /\ EnvelopeOk(req[t].body)
       /\ MissingOf(t) # {} /\ ExtraOf(t) # {}
       /\ "age" \in KeysOf(t)
       /\ HasError(t)

\* Worker t takes the save step of /update.
UpdateSaveStep(t) == pc[t] = "got" /\ pc'[t] = "done"

\* C15: no step removes a record or changes the id, observation_id,
\* observation or proba of a stored record; true_class of a stored record
\* changes only in the save step of an /update request for its identifier.
C15_RecordsImmutable ==
    [][/\ Len(store') >= Len(store)
       /\ \A i \in 1..Len(store) :
            /\ store'[i] = [store[i] EXCEPT !.true_class = store'[i].true_class]
            /\ store'[i].true_class # store[i].true_class =>
                 \E t \in Workers :
                    /\ UpdateSaveStep(t) /\ IsUpdate(t)
                    /\ IdOf(t) = store[i].observation_id]_vars

\* C15 witness: a record has a label and a later /predict for its
\* identifier, with another observation, has been answered.
C15_Witness ==
    /\ store # << >>
    /\ store[1].true_class # JNull
    /\ \E t \in Workers :
          /\ pc[t] = "done" /\ IsPredict(t) /\ score[t].set
          /\ IdOf(t) = store[1].observation_id
          /\ req[t].body # store[1].observation

\* C16: a record is inserted without a label, and no step takes a record
\* that has a label back to no label.
C16_LabelNeverCleared ==
    [][/\ \A i \in 1..Len(store) :
            store[i].true_class # JNull =>
              i <= Len(store') /\ store'[i].true_class # JNull
       /\ \A i \in (Len(store) + 1)..Len(store') :
            store'[i].true_class = JNull]_vars

\* C17: the save step of an /update request leaves the record of its
\* identifier with the submitted true_class, whatever label it had; when
\* the record already has that true_class the table stays as it is and the
\* response is the stored record again.
C17_UpdateIdempotentLastWins ==
    [][\A t \in Workers :
         UpdateSaveStep(t) =>
           LET v == req[t].body.v["true_class"]
               found == Rows(IdOf(t))
           IN /\ found # {}
              /\ \A i \in found : store'[i].true_class = v
              /\ (\A i \in found : store[i].true_class = v) =>
                   /\ store' = store
                   /\ resp'[t].kind = "json"
                   /\ \E i \in found : resp'[t].body = store[i]]_vars

\* C17 witness: two /update requests with different true_class for one
\* identifier have been answered without error and the record has the
\* label of one of them.
C17_Witness ==
    \E t1, t2 \in Workers :
       /\ t1 # t2
       /\ pc[t1] = "done" /\ pc[t2] = "done"
       /\ IsUpdate(t1) /\ IsUpdate(t2)
       /\ p[t1].set /\ p[t2].set
       /\ IdOf(t1) = IdOf(t2)
       /\ resp[t1].body.true_class # resp[t2].body.true_class
       /\ \E i \in Rows(IdOf(t1)) : store[i].true_class = resp[t2].body.true_class

\* Worker t answers a /list-db-contents request.
ListStep(t) == FirstStep(t) /\ req[t].endpoint = "list"

\* C18: /list-db-contents answers with as many records as are stored, every
\* stored record among them once with all its columns, and leaves the table
\* as it is.
C18_ListReturnsStore ==
    [][\A t \in Workers :
         ListStep(t) =>
           /\ store' = store
           /\ pc'[t] = "done"
           /\ resp'[t].kind = "json"
           /\ Len(resp'[t].body) = Len(store)
           /\ \A i \in 1..Len(store) :
                Cardinality({j \in 1..Len(resp'[t].body) :
                               resp'[t].body[j] = store[i]}) = 1]_vars

\* C18 witness: a record with a label was listed.
C18_Witness ==
    \E t \in Workers :
       /\ pc[t] = "done" /\ req[t].endpoint = "list"
       /\ resp[t].kind = "json"
       /\ Len(resp[t].body) >= 1
       /\ resp[t].body[1].true_class # JNull

\* C19: the save step of /predict answers with the duplicate error only
\* when a record with the submitted observation_id is stored at that step.
C19_DuplicateOnlyWhenStored ==
    [][\A t \in Workers :
         (/\ SaveStep(t)
          /\ "error" \in DOMAIN resp'[t].body
          /\ resp'[t].body.error = DuplicateError(IdOf(t))) =>
           Rows(IdOf(t)) # {}]_vars

====
